---- MODULE Spec2Model ----
(***************************************************************************)
(* Model of vsc.modules.cache (lib/vsc/modules/cache.py): the version      *)
(* comparator SoftwareVersion, sort_recent_versions, cluster_map,          *)
(* sort_modulepaths, software_map and software_cluster_view, and of the     *)
(* conversion run convert_lmod_cache_to_json as started by the script      *)
(* bin/run_lmod_cache.py.                                                  *)
(*                                                                         *)
(* Python strings are modelled as sequences of one-character strings, so   *)
(* that split, lstrip, startswith, slicing and the code-point ordering of  *)
(* str comparison are computed and not assumed.                            *)
(***************************************************************************)
EXTENDS Integers, Sequences, FiniteSets, TLC

VARIABLES
    versions,      \* sort_recent_versions / comparison: the argument list
    cmpOut,        \* outcome of SoftwareVersion(versions[1])._cmp(SoftwareVersion(versions[2]))
    sortOut,       \* outcome of sort_recent_versions(versions)
    resortOut,     \* outcome of sort_recent_versions applied to the previous result
    mpathMapT,     \* cluster_map: the ModulePathTable, mpath -> set of module names
    cmTodo,        \* cluster_map: module-paths the outer loop has not reached yet
    cmCur,         \* cluster_map: <<mpath>> being iterated, or <<>>
    cmNames,       \* cluster_map: cluster module names of cmCur still to iterate
    clustermap,    \* cluster_map: dict cluster -> cluster module
    modulepathmap, \* cluster_map: dict mpath -> list of clusters
    cmStatus,      \* cluster_map: "idle", "running", "done" or "error"
    spiderT,       \* software_map: the SpiderTable
    mpmap,         \* software_map: mpath -> sorted list of clusters
    clusterData,   \* CLUSTER_DATA: sequence of EXTRA_MODULEPATHS lists
    modulepaths,   \* software_map: the sequenced module-paths
    mpIdx,         \* software_map: index in modulepaths of the next module-path
    softmap,       \* software_map: the SoftwareMap being built
    determined,    \* history: the default determined at each processed module-path
    smStatus,      \* software_map: "idle", "running", "done" or "error"
                   \* ("pending" in a conversion run that has not reached the call)
    clview,        \* software_cluster_view: the ClusterView
    cvDefaults,    \* software_cluster_view: the defaults popped per package
    cvStatus,      \* software_cluster_view: "idle", "done" or "error"
                   \* ("unused" in a conversion run, which does not call it)
    runOpts,       \* run_lmod_cache.py: the options and the environment of the run
    scPc,          \* run_lmod_cache.py: the statement main() is at
    convStatus,    \* convert_lmod_cache_to_json: "idle", "running", "returned" or "raised"
    artifact,      \* the contents written to the JSON file in this run, in order
    reports        \* the nagios reports issued by the script, in order

vars == <<versions, cmpOut, sortOut, resortOut,
          mpathMapT, cmTodo, cmCur, cmNames, clustermap, modulepathmap, cmStatus,
          spiderT, mpmap, clusterData, modulepaths, mpIdx, softmap, determined,
          smStatus, clview, cvDefaults, cvStatus,
          runOpts, scPc, convStatus, artifact, reports>>

versionVars == <<versions, cmpOut, sortOut, resortOut>>
clusterVars == <<mpathMapT, cmTodo, cmCur, cmNames, clustermap, modulepathmap, cmStatus>>
softVars    == <<spiderT, mpmap, clusterData, modulepaths, mpIdx, softmap, determined,
                 smStatus, clview, cvDefaults, cvStatus>>
runVars     == <<runOpts, scPc, convStatus, artifact, reports>>

(***************************************************************************)
(* Bounds of the model.                                                    *)
(***************************************************************************)
MaxVLen == 2        \* longest version string compared pairwise
MaxVersions == 3    \* longest list handed to sort_recent_versions

(***************************************************************************)
(* Python str: code points and comparison.                                 *)
(***************************************************************************)
DigitSeq == <<"0", "1", "2", "3", "4", "5", "6", "7", "8", "9">>
UpperSeq == <<"A", "B", "C", "D", "E", "F", "G", "H", "I", "J", "K", "L", "M",
              "N", "O", "P", "Q", "R", "S", "T", "U", "V", "W", "X", "Y", "Z">>
LowerSeq == <<"a", "b", "c", "d", "e", "f", "g", "h", "i", "j", "k", "l", "m",
              "n", "o", "p", "q", "r", "s", "t", "u", "v", "w", "x", "y", "z">>
Range(f) == {f[i] : i \in DOMAIN f}
Digits == Range(DigitSeq)     \* \d
Uppers == Range(UpperSeq)
Lowers == Range(LowerSeq)     \* [a-z]

IndexIn(q, c) == CHOOSE i \in DOMAIN q : q[i] = c

\* ord(c) for the ASCII characters the model uses.
Ord(c) ==
    CASE c = "-" -> 45 [] c = "." -> 46 [] c = "/" -> 47
      [] c \in Digits -> 47 + IndexIn(DigitSeq, c)
      [] c \in Uppers -> 64 + IndexIn(UpperSeq, c)
      [] c \in Lowers -> 96 + IndexIn(LowerSeq, c)

Min2(a, b) == IF a <= b THEN a ELSE b

\* Index of the first position where a and b differ, 0 when one is a prefix
\* of the other (or they are equal).
FirstDiff(a, b) ==
    LET d == {i \in 1..Min2(Len(a), Len(b)) : a[i] # b[i]}
    IN  IF d = {} THEN 0 ELSE CHOOSE i \in d : \A j \in d : i <= j

\* str.__lt__: lexicographic by code point, a proper prefix is smaller.
StrLess(a, b) ==
    LET i == FirstDiff(a, b)
    IN  IF i = 0 THEN Len(a) < Len(b) ELSE Ord(a[i]) < Ord(b[i])

\* str.startswith
StartsWith(s, p) == Len(p) <= Len(s) /\ SubSeq(s, 1, Len(p)) = p

\* str.lstrip(c)
RECURSIVE LStrip(_, _)
LStrip(s, c) == IF s # <<>> /\ Head(s) = c THEN LStrip(Tail(s), c) ELSE s

(***************************************************************************)
(* SoftwareVersion (cache.py 57-81) over distutils' LooseVersion.          *)
(***************************************************************************)
ZFillWidth == 64

\* A Python value held in a version's component list.
StrComp(x) == [t |-> "str", s |-> x, n |-> 0]
IntComp(k) == [t |-> "int", s |-> <<>>, n |-> k]

\* First index at or after i whose character is not in Cls.
RECURSIVE RunEnd(_, _, _)
RunEnd(s, i, Cls) == IF i <= Len(s) /\ s[i] \in Cls THEN RunEnd(s, i + 1, Cls) ELSE i

\* [x for x in component_re.split(vstring) if x and x != '.'] with
\* component_re = (v?\d+ | [a-z]+ | \.): scanning from index i, sep is the
\* unmatched text gathered since the last match.
RECURSIVE SplitFrom(_, _, _)
SplitFrom(s, i, sep) ==
    LET flush == IF sep = <<>> THEN <<>> ELSE <<sep>>
    IN  IF i > Len(s) THEN flush
        ELSE IF s[i] = "v" /\ i < Len(s) /\ s[i + 1] \in Digits
             THEN LET e == RunEnd(s, i + 1, Digits)
                  IN  flush \o <<SubSeq(s, i, e - 1)>> \o SplitFrom(s, e, <<>>)
        ELSE IF s[i] \in Digits
             THEN LET e == RunEnd(s, i, Digits)
                  IN  flush \o <<SubSeq(s, i, e - 1)>> \o SplitFrom(s, e, <<>>)
        ELSE IF s[i] \in Lowers
             THEN LET e == RunEnd(s, i, Lowers)
                  IN  flush \o <<SubSeq(s, i, e - 1)>> \o SplitFrom(s, e, <<>>)
        ELSE IF s[i] = "."
             THEN flush \o SplitFrom(s, i + 1, <<>>)
        ELSE SplitFrom(s, i + 1, Append(sep, s[i]))

SplitComponents(vstring) == SplitFrom(vstring, 1, <<>>)

\* int(x) succeeds (no ValueError) on a non-empty run of digits.
IsIntLiteral(x) == x # <<>> /\ \A i \in 1..Len(x) : x[i] \in Digits

DigitVal(c) == Ord(c) - Ord("0")
DigitChar(d) == DigitSeq[d + 1]

\* int(x)
RECURSIVE ToInt(_)
ToInt(x) == IF x = <<>> THEN 0
            ELSE 10 * ToInt(SubSeq(x, 1, Len(x) - 1)) + DigitVal(x[Len(x)])

\* "%d" % k
RECURSIVE IntToStr(_)
IntToStr(k) == IF k < 10 THEN <<DigitChar(k)>>
               ELSE Append(IntToStr(k \div 10), DigitChar(k % 10))

\* "%0<width>d" % k: left-padded with zeros to at least width characters.
ZFill(k, width) ==
    LET d == IntToStr(k)
    IN  IF Len(d) >= width THEN d
        ELSE [i \in 1..width |-> IF i <= width - Len(d) THEN "0"
                                 ELSE d[i - (width - Len(d))]]

\* Variant of parse that keeps LooseVersion's conversion: numeric components
\* become ints, so a list can hold ints and strs.
LooseParse(vstring) ==
    LET c == SplitComponents(vstring)
    IN  [i \in 1..Len(c) |-> IF IsIntLiteral(c[i]) THEN IntComp(ToInt(c[i]))
                             ELSE StrComp(c[i])]

\* Variant of parse without the zero fill: components[i] = "%d" % int(...).
ParseNoFill(vstring) ==
    LET c == SplitComponents(vstring)
    IN  [i \in 1..Len(c) |->
            IF IsIntLiteral(LStrip(c[i], "v"))
            THEN StrComp(IntToStr(ToInt(LStrip(c[i], "v"))))
            ELSE StrComp(c[i])]

\* SoftwareVersion.parse: numeric components (after lstrip('v')) become
\* zero-filled strings, every component stays a str.
Parse(vstring) ==
    LET c == SplitComponents(vstring)
    IN  [i \in 1..Len(c) |->
            IF IsIntLiteral(LStrip(c[i], "v"))
            THEN StrComp(ZFill(ToInt(LStrip(c[i], "v")), ZFillWidth))
            ELSE StrComp(c[i])]

\* a < b for two component values; comparing an int with a str is a TypeError.
CompLess(a, b) == IF a.t = "str" THEN StrLess(a.s, b.s) ELSE a.n < b.n

\* LooseVersion._cmp on two parsed versions (lists compared with ==, <, >).
ListCmp(x, y) ==
    LET i == FirstDiff(x, y)
    IN  IF x = y THEN "equal"
        ELSE IF i = 0 THEN (IF Len(x) < Len(y) THEN "less" ELSE "greater")
        ELSE IF x[i].t # y[i].t THEN "TypeError"
        ELSE IF CompLess(x[i], y[i]) THEN "less" ELSE "greater"

\* SoftwareVersion(a)._cmp(SoftwareVersion(b)): logs and re-raises.
SoftwareVersionCmp(a, b) == ListCmp(Parse(a), Parse(b))

(***************************************************************************)
(* sort_recent_versions (cache.py 199-205).                                *)
(***************************************************************************)
Ok(v) == [err |-> "none", val |-> v]
Raise(e) == [err |-> e, val |-> <<>>]
Unset == [err |-> "unset", val |-> <<>>]

RECURSIVE InsertRecent(_, _)

\* r with x put in front of its list, an error passed on.
Prepend(x, r) == IF r.err # "none" THEN r ELSE Ok(<<x>> \o r.val)

\* Variant of the placement that puts x before the elements equal to it.
PlaceBeforeEqual(c, srt, x) ==
    IF c = "TypeError" THEN Raise("TypeError")
    ELSE IF c # "greater" THEN Ok(<<x>> \o srt)
    ELSE Prepend(Head(srt), InsertRecent(Tail(srt), x))

\* x against the head of the descending list srt, c their comparison: x goes
\* before the first element below it, so after every element equal to it.
Place(c, srt, x) ==
    IF c = "TypeError" THEN Raise("TypeError")
    ELSE IF c = "less" THEN Ok(<<x>> \o srt)
    ELSE Prepend(Head(srt), InsertRecent(Tail(srt), x))

\* Place x, which follows every element of srt in the input, in the
\* descending list srt.
InsertRecent(srt, x) ==
    IF srt = <<>> THEN Ok(<<x>>)
    ELSE Place(SoftwareVersionCmp(Head(srt), x), srt, x)

\* r with x inserted in its list, an error passed on.
InsertInto(r, x) == IF r.err # "none" THEN r ELSE InsertRecent(r.val, x)

\* sorted(versions, key=SoftwareVersion, reverse=True): a new list, stable.
RECURSIVE SortedRecent(_)
SortedRecent(l) ==
    IF l = <<>> THEN Ok(<<>>)
    ELSE InsertInto(SortedRecent(SubSeq(l, 1, Len(l) - 1)), l[Len(l)])

sort_recent_versions(l) == SortedRecent(l)

(***************************************************************************)
(* Values of the variables a specification does not use.                   *)
(***************************************************************************)
IdleVersions == versions = <<>> /\ cmpOut = "none" /\ sortOut = Unset /\ resortOut = Unset
IdleCluster ==
    /\ mpathMapT = <<>> /\ cmTodo = {} /\ cmCur = <<>> /\ cmNames = {}
    /\ clustermap = <<>> /\ modulepathmap = <<>> /\ cmStatus = "idle"
IdleSoft ==
    /\ spiderT = <<>> /\ mpmap = <<>> /\ clusterData = <<>> /\ modulepaths = <<>>
    /\ mpIdx = 0 /\ softmap = <<>> /\ determined = <<>> /\ smStatus = "idle"
    /\ clview = <<>> /\ cvDefaults = <<>> /\ cvStatus = "idle"
IdleRun ==
    /\ runOpts = <<>> /\ scPc = "none" /\ convStatus = "idle"
    /\ artifact = <<>> /\ reports = <<>>

SeqsUpTo(S, n) == UNION {[1..k -> S] : k \in 0..n}

(***************************************************************************)
(* SpecCompare: two version strings are compared, then sorted as a list.   *)
(***************************************************************************)
VChars == {"0", "1", "9", "v", ".", "-"}

\* Version strings of test_versions and test_make_json (test/cache.py).
V_2_25 == <<"1", ".", "2", ".", "8", "-", "G", "C", "C", "-", "4", ".", "9", ".", "3", "-", "2", ".", "2", "5">>
V_binutils == <<"1", ".", "2", ".", "8", "-", "G", "C", "C", "-", "4", ".", "9", ".", "3", "-", "b", "i", "n", "u", "t", "i", "l", "s", "-", "2", ".", "2", "5">>
V_8_2_0 == <<"2", ".", "6", "9", "-", "G", "C", "C", "c", "o", "r", "e", "-", "8", ".", "2", ".", "0">>
V_8_3_0 == <<"2", ".", "6", "9", "-", "G", "C", "C", "c", "o", "r", "e", "-", "8", ".", "3", ".", "0">>
TestVersions == {V_2_25, V_binutils, V_8_2_0, V_8_3_0}

VStrings == SeqsUpTo(VChars, MaxVLen) \cup TestVersions

InitCompare ==
    /\ versions \in [1..2 -> VStrings]
    /\ cmpOut = "none" /\ sortOut = Unset /\ resortOut = Unset
    /\ IdleCluster /\ IdleSoft /\ IdleRun

\* SoftwareVersion(versions[1])._cmp(SoftwareVersion(versions[2]))
Compare ==
    /\ Len(versions) = 2 /\ cmpOut = "none"
    /\ cmpOut' = SoftwareVersionCmp(versions[1], versions[2])
    /\ UNCHANGED <<versions, sortOut, resortOut, clusterVars, softVars, runVars>>

\* sort_recent_versions(versions)
SortVersions ==
    /\ sortOut = Unset
    /\ sortOut' = sort_recent_versions(versions)
    /\ UNCHANGED <<versions, cmpOut, resortOut, clusterVars, softVars, runVars>>

NextCompare == Compare \/ (cmpOut # "none" /\ SortVersions)

SpecCompare == InitCompare /\ [][NextCompare]_vars

(***************************************************************************)
(* SpecSort: a list of version strings is sorted, and its result again.    *)
(***************************************************************************)
SortPool == {<<"1">>, <<"v", "1">>, <<"0", "1">>, <<"1", "0">>, <<"9">>,
             <<"1", "-", "v">>, V_8_2_0, V_8_3_0}

InitSort ==
    /\ versions \in SeqsUpTo(SortPool, MaxVersions)
    /\ cmpOut = "none" /\ sortOut = Unset /\ resortOut = Unset
    /\ IdleCluster /\ IdleSoft /\ IdleRun

\* sort_recent_versions(sort_recent_versions(versions))
Resort ==
    /\ sortOut.err = "none" /\ resortOut = Unset
    /\ resortOut' = sort_recent_versions(sortOut.val)
    /\ UNCHANGED <<versions, cmpOut, sortOut, clusterVars, softVars, runVars>>

NextSort == SortVersions \/ Resort

SpecSort == InitSort /\ [][NextSort]_vars

(***************************************************************************)
(* Python dict, str.split, "/".join and sorted() on strings.               *)
(***************************************************************************)
EmptyDict == [k \in {} |-> <<>>]

\* d[k] = v
DictSet(d, k, v) == [x \in DOMAIN d \cup {k} |-> IF x = k THEN v ELSE d[x]]

\* d.setdefault(k, v): the dict afterwards (the call returns its value at k).
SetDefault(d, k, v) == IF k \in DOMAIN d THEN d ELSE DictSet(d, k, v)

\* s.split(c)
RECURSIVE SplitOn(_, _, _)
SplitOn(s, c, cur) ==
    IF s = <<>> THEN <<cur>>
    ELSE IF Head(s) = c THEN <<cur>> \o SplitOn(Tail(s), c, <<>>)
    ELSE SplitOn(Tail(s), c, Append(cur, Head(s)))
Split(s, c) == SplitOn(s, c, <<>>)

\* c.join(parts)
RECURSIVE Join(_, _)
Join(parts, c) ==
    IF parts = <<>> THEN <<>>
    ELSE IF Len(parts) = 1 THEN parts[1]
    ELSE parts[1] \o <<c>> \o Join(Tail(parts), c)

\* sorted(l) for a list of strings: ascending.
RECURSIVE InsertAsc(_, _)
InsertAsc(srt, x) ==
    IF srt = <<>> THEN <<x>>
    ELSE IF StrLess(x, Head(srt)) THEN <<x>> \o srt
    ELSE <<Head(srt)>> \o InsertAsc(Tail(srt), x)
RECURSIVE Sorted(_)
Sorted(l) == IF l = <<>> THEN <<>>
             ELSE InsertAsc(Sorted(SubSeq(l, 1, Len(l) - 1)), l[Len(l)])

(***************************************************************************)
(* cluster_map (cache.py 126-162).                                         *)
(***************************************************************************)
MaxNames == 2       \* most module names one module-path of the table holds

ClusterPrefix == <<"c", "l", "u", "s", "t", "e", "r", "/">>

\* parts = clmod.split('/')[1:]
Parts(clmod) == Tail(Split(clmod, "/"))

\* clustername = parts[0].lstrip('.')
ClusterName(clmod) == LStrip(Parts(clmod)[1], ".")

\* the branch at line 138: a cluster/partition module
IsPartitioned(clmod) == Len(Parts(clmod)) = 2

\* cluster: "%s/%s" % (clustername, partition), or clustername
ClusterOf(clmod) ==
    IF IsPartitioned(clmod)
    THEN ClusterName(clmod) \o <<"/">> \o LStrip(Parts(clmod)[2], ".")
    ELSE ClusterName(clmod)

\* Variant of the partitions lookup that misses the "/" in the prefix test.
ExistingPartitionsExact(cm, clustername) ==
    {x \in DOMAIN cm : x = clustername \o <<"/">>}

\* partitions = [x for x in clustermap.keys() if x.startswith(clustername + "/")]
ExistingPartitions(cm, clustername) ==
    {x \in DOMAIN cm : StartsWith(x, clustername \o <<"/">>)}

\* Variant of the membership update without the sorted().
MpClustersAppended(mpclusters, cluster) ==
    IF cluster \in Range(mpclusters) THEN mpclusters ELSE Append(mpclusters, cluster)

\* lines 156-158: append when absent, then sorted(mpclusters)
MpClusters(mpclusters, cluster) ==
    Sorted(IF cluster \in Range(mpclusters) THEN mpclusters
           ELSE Append(mpclusters, cluster))

\* [x for x in data.keys() if x.startswith('cluster/')]
ClusterModules(data) == {x \in data : StartsWith(x, ClusterPrefix)}

\* Module names of the tables: mod1, cluster/a, cluster/.a, cluster/a/p,
\* cluster/a/.p, cluster/b, cluster/a/p/q, cluster/ab/p.
ModName(tail) == ClusterPrefix \o tail
NamePool == {<<"m", "o", "d", "1">>,
             ModName(<<"a">>),
             ModName(<<".", "a">>),
             ModName(<<"a", "/", "p">>),
             ModName(<<"a", "/", ".", "p">>),
             ModName(<<"b">>),
             ModName(<<"a", "/", "p", "/", "q">>),
             ModName(<<"a", "b", "/", "p">>)}

MPaths == {<<"/", "x">>, <<"/", "y">>}

SubsetsUpTo(S, n) == {T \in SUBSET S : Cardinality(T) <= n}

InitCluster ==
    /\ mpathMapT \in [MPaths -> SubsetsUpTo(NamePool, MaxNames)]
    /\ cmTodo = MPaths /\ cmCur = <<>> /\ cmNames = {}
    /\ clustermap = EmptyDict /\ modulepathmap = EmptyDict
    /\ cmStatus = "running"
    /\ IdleVersions /\ IdleSoft /\ IdleRun

\* for mpath, data in mpathMapT.items(): the next module-path, in any order
CMNextPath ==
    /\ cmStatus = "running" /\ cmNames = {}
    /\ \E mpath \in cmTodo :
        /\ cmTodo' = cmTodo \ {mpath}
        /\ cmCur' = <<mpath>>
        /\ cmNames' = ClusterModules(mpathMapT[mpath])
    /\ UNCHANGED <<mpathMapT, clustermap, modulepathmap, cmStatus, versionVars, softVars, runVars>>

\* for clmod in [...]: one pass of the inner loop body, in any order
CMStep ==
    /\ cmStatus = "running"
    /\ \E clmod \in cmNames :
        LET mpath == cmCur[1]
            clustername == ClusterName(clmod)
            cluster == ClusterOf(clmod)
            clash == IF IsPartitioned(clmod)
                     THEN clustername \in DOMAIN clustermap
                     ELSE ExistingPartitions(clustermap, clustername) # {}
            newmap == SetDefault(clustermap, cluster, clmod)
            tmpclmod == newmap[cluster]
            mpclusters == SetDefault(modulepathmap, mpath, <<>>)[mpath]
        IN  /\ cmNames' = cmNames \ {clmod}
            /\ IF clash \/ tmpclmod # clmod
               THEN /\ cmStatus' = "error"
                    /\ UNCHANGED <<clustermap, modulepathmap>>
               ELSE /\ clustermap' = newmap
                    /\ modulepathmap' =
                           DictSet(modulepathmap, mpath, MpClusters(mpclusters, cluster))
                    /\ UNCHANGED cmStatus
    /\ UNCHANGED <<mpathMapT, cmTodo, cmCur, versionVars, softVars, runVars>>

\* return clustermap, modulepathmap
CMReturn ==
    /\ cmStatus = "running" /\ cmTodo = {} /\ cmNames = {}
    /\ cmStatus' = "done"
    /\ UNCHANGED <<mpathMapT, cmTodo, cmCur, cmNames, clustermap, modulepathmap,
                   versionVars, softVars, runVars>>

NextCluster == CMNextPath \/ CMStep \/ CMReturn

SpecCluster == InitCluster /\ [][NextCluster]_vars

(***************************************************************************)
(* sort_modulepaths (cache.py 165-196).                                    *)
(***************************************************************************)
MaxExtras == 2      \* longest EXTRA_MODULEPATHS list of a CLUSTER_DATA entry
MaxEntries == 1     \* most entries CLUSTER_DATA holds

\* A list holding the elements of the set S (a dict's keys), in some order.
RECURSIVE ListOf(_)
ListOf(S) == IF S = {} THEN <<>>
             ELSE LET x == CHOOSE y \in S : TRUE IN <<x>> \o ListOf(S \ {x})

\* l[::-1]
Reversed(l) == [i \in 1..Len(l) |-> l[Len(l) + 1 - i]]

\* l.remove(x): without the first occurrence of x.
RECURSIVE Remove(_, _)
Remove(l, x) == IF l = <<>> THEN <<>>
                ELSE IF Head(l) = x THEN Tail(l)
                ELSE <<Head(l)>> \o Remove(Tail(l), x)

\* lines 190-193: move extra to the end (if present)
MoveToEnd(l, extra) ==
    IF extra \in Range(l) THEN Append(Remove(l, extra), extra) ELSE l

\* for extra in extras: ... over one reversed EXTRA_MODULEPATHS list
RECURSIVE MoveExtras(_, _)
MoveExtras(l, extras) ==
    IF extras = <<>> THEN l
    ELSE MoveExtras(MoveToEnd(l, Head(extras)), Tail(extras))

\* Variant that walks an entry's extras in their declared order.
EntryExtrasDeclared(entry) == entry

\* x.get('EXTRA_MODULEPATHS', [])[::-1]
EntryExtras(entry) == Reversed(entry)

\* for extras in [... for x in CLUSTER_DATA.values()]
RECURSIVE MoveAll(_, _)
MoveAll(l, entries) ==
    IF entries = <<>> THEN l
    ELSE MoveAll(MoveExtras(l, EntryExtras(Head(entries))), Tail(entries))

\* lines 167-178: the absolute spiderT keys that are in mpmap, sorted
PreSorted(spider, mpm) ==
    Sorted(ListOf({mpath \in DOMAIN spider :
                      StartsWith(mpath, <<"/">>) /\ mpath \in DOMAIN mpm}))

sort_modulepaths(spider, mpm, cdata) == MoveAll(PreSorted(spider, mpm), cdata)

(***************************************************************************)
(* SpecSeq: sort_modulepaths on a SpiderTable's keys.                      *)
(***************************************************************************)
PathA == <<"/", "a">>
PathB == <<"/", "b">>
PathC == <<"/", "c">>
PathZ == <<"/", "z">>
VersionKey == <<"v", "e", "r", "s", "i", "o", "n">>    \* a spiderT key that is no module-path

SeqKeys == {PathA, PathB, PathC, VersionKey}
SeqPaths == {PathA, PathB, PathC}
ExtraPool == {PathA, PathB, PathC, PathZ}

InitSeq ==
    /\ \E K \in SUBSET SeqKeys : /\ Cardinality(K) >= 3
                                 /\ spiderT = [k \in K |-> EmptyDict]
    /\ \E M \in SUBSET SeqPaths : /\ Cardinality(M) >= 2
                                  /\ mpmap = [k \in M |-> << <<"a">> >>]
    /\ clusterData \in SeqsUpTo(SeqsUpTo(ExtraPool, MaxExtras), MaxEntries)
    /\ modulepaths = <<>> /\ mpIdx = 0 /\ softmap = EmptyDict /\ determined = EmptyDict
    /\ smStatus = "idle" /\ clview = EmptyDict /\ cvDefaults = EmptyDict
    /\ cvStatus = "idle"
    /\ IdleVersions /\ IdleCluster /\ IdleRun

\* modulepaths = sort_modulepaths(spiderT, mpmap)
SMStart ==
    /\ smStatus = "idle"
    /\ modulepaths' = sort_modulepaths(spiderT, mpmap, clusterData)
    /\ mpIdx' = 1
    /\ smStatus' = "running"
    /\ UNCHANGED <<spiderT, mpmap, clusterData, softmap, determined, clview, cvDefaults,
                   cvStatus, versionVars, clusterVars, runVars>>

(***************************************************************************)
(* software_map (cache.py 208-266).                                        *)
(*                                                                         *)
(* A package's entry of the SoftwareMap (a dict in insertion order) is a   *)
(* record: order lists its version keys as inserted, clusters maps each    *)
(* version key to its cluster list, and defaults is the value of the       *)
(* DEFAULTKEY key once hasDefaults is set.                                 *)
(***************************************************************************)
DEFAULTKEY == <<".", "d", "e", "f", "a", "u", "l", "t">>

EmptySoft == [order |-> <<>>, clusters |-> EmptyDict,
              hasDefaults |-> FALSE, defaults |-> EmptyDict]

\* The keys of a package's entry: `x in soft`.
SoftKeys(soft) ==
    DOMAIN soft.clusters \cup (IF soft.hasDefaults THEN {DEFAULTKEY} ELSE {})

\* lines 230-231: softversion = soft.setdefault(version, []);
\*                soft[version] = sorted(softversion + clusters)
AddVersion(soft, version, clusters) ==
    LET known == version \in DOMAIN soft.clusters
        softversion == IF known THEN soft.clusters[version] ELSE <<>>
    IN  [soft EXCEPT !.order = IF known THEN @ ELSE Append(@, version),
                     !.clusters = DictSet(@, version, Sorted(softversion \o clusters))]

\* lines 220-231: the loop over namedata['fileT'].items(); acc holds err,
\* soft and mpversions.
RECURSIVE RecordFiles(_, _, _, _)
RecordFiles(entries, name, clusters, acc) ==
    IF entries = <<>> THEN acc
    ELSE LET e == Head(entries)
             version == e.Version
         IN  IF version # e.canonical
             THEN [acc EXCEPT !.err = "Version != canonical"]
             ELSE IF e.fullname # name \o <<"/">> \o version
             THEN [acc EXCEPT !.err = "fullname != name/version"]
             ELSE RecordFiles(Tail(entries), name, clusters,
                              [err |-> "none",
                               soft |-> AddVersion(acc.soft, version, clusters),
                               mpversions |-> Append(acc.mpversions, version)])

\* lines 238-240: a defaultT with a non-empty value
HasValue(defaultT) == defaultT.set /\ defaultT.value # <<>>

\* lines 241-245: the value without a leading "name/"
StripName(name, value) ==
    IF StartsWith(value, name \o <<"/">>)
    THEN SubSeq(value, Len(name) + 2, Len(value))
    ELSE value

\* line 247: `default not in soft` is false
DefaultKnown(default, soft, mpversions) == default \in SoftKeys(soft)

\* Variant of the fallback that sorts every version the package has so far.
FallbackAll(mpversions, soft) == sort_recent_versions(soft.order)

\* line 255: sort_recent_versions(mpversions), whose [0] is taken
Fallback(mpversions, soft) == sort_recent_versions(mpversions)

\* line 255: [0] of the sorted list r, IndexError on an empty one
FirstOf(r) ==
    IF r.err # "none" THEN [err |-> r.err, default |-> <<>>]
    ELSE IF r.val = <<>> THEN [err |-> "IndexError", default |-> <<>>]
    ELSE [err |-> "none", default |-> r.val[1]]

\* lines 235-255: the default of name for this module-path, [err, default].
DetermineDefault(name, defaultT, soft, mpversions) ==
    LET default == StripName(name, defaultT.value)
    IN  IF HasValue(defaultT) /\ ~DefaultKnown(default, soft, mpversions)
        THEN [err |-> "Default value not matching entry", default |-> <<>>]
        ELSE IF HasValue(defaultT) /\ default # <<>>
        THEN [err |-> "none", default |-> default]
        ELSE FirstOf(Fallback(mpversions, soft))

\* Variant of the tracking in which the last module-path wins.
TrackDefaultLast(softdefault, cluster, default) == DictSet(softdefault, cluster, default)

\* line 261: softdefault.setdefault(cluster, default)
TrackDefault(softdefault, cluster, default) == SetDefault(softdefault, cluster, default)

\* lines 260-265: for cluster in clusters
RECURSIVE TrackDefaults(_, _, _)
TrackDefaults(softdefault, clusters, default) ==
    IF clusters = <<>> THEN softdefault
    ELSE TrackDefaults(TrackDefault(softdefault, Head(clusters), default),
                       Tail(clusters), default)

\* lines 257-265 after the default det is determined; rec is the outcome of
\* the fileT loop, soft the entry before this module-path.
WithDefault(det, rec, soft, clusters) ==
    IF det.err # "none" THEN [err |-> det.err, soft |-> soft, default |-> <<>>]
    ELSE [err |-> "none",
          soft |-> [rec.soft EXCEPT
                       !.hasDefaults = TRUE,
                       !.defaults = TrackDefaults(@, clusters, det.default)],
          default |-> det.default]

\* lines 233-265 after the fileT loop, rec its outcome
WithFiles(rec, soft, name, namedata, clusters) ==
    IF rec.err # "none" THEN [err |-> rec.err, soft |-> soft, default |-> <<>>]
    ELSE WithDefault(DetermineDefault(name, namedata.defaultT, rec.soft, rec.mpversions),
                     rec, soft, clusters)

\* lines 217-265: one package of one module-path; [err, soft, default].
ProcessName(soft, name, namedata, clusters) ==
    WithFiles(RecordFiles(namedata.fileT, name, clusters,
                          [err |-> "none", soft |-> soft, mpversions |-> <<>>]),
              soft, name, namedata, clusters)

\* soft = softmap.setdefault(name, {})
SoftOf(smap, name) == SetDefault(smap, name, EmptySoft)[name]

\* acc after package name, r the outcome of ProcessName
PathAcc(acc, name, r) ==
    IF r.err # "none" THEN [acc EXCEPT !.err = r.err]
    ELSE [err |-> "none",
          softmap |-> DictSet(acc.softmap, name, r.soft),
          defaults |-> DictSet(acc.defaults, name, r.default)]

\* lines 216-265: the packages of one module-path, names still to do;
\* acc holds err, softmap and the defaults determined here.
RECURSIVE ProcessPath(_, _, _, _)
ProcessPath(names, data, clusters, acc) ==
    IF names = <<>> \/ acc.err # "none" THEN acc
    ELSE ProcessPath(Tail(names), data, clusters,
             PathAcc(acc, Head(names),
                     ProcessName(SoftOf(acc.softmap, Head(names)), Head(names),
                                 data[Head(names)], clusters)))

\* The loop body's effect, r the outcome of ProcessPath for mpath.
SMStepEffect(mpath, r) ==
    IF r.err # "none"
    THEN /\ smStatus' = "error"
         /\ UNCHANGED <<mpIdx, softmap, determined>>
    ELSE /\ softmap' = r.softmap
         /\ determined' = DictSet(determined, mpath, r.defaults)
         /\ mpIdx' = mpIdx + 1
         /\ UNCHANGED smStatus

\* for mpath in modulepaths: one pass of the loop body
SMStep ==
    /\ smStatus = "running" /\ mpIdx <= Len(modulepaths)
    /\ SMStepEffect(modulepaths[mpIdx],
           ProcessPath(ListOf(DOMAIN spiderT[modulepaths[mpIdx]]),
                       spiderT[modulepaths[mpIdx]], mpmap[modulepaths[mpIdx]],
                       [err |-> "none", softmap |-> softmap, defaults |-> EmptyDict]))
    /\ UNCHANGED <<spiderT, mpmap, clusterData, modulepaths, clview, cvDefaults, cvStatus,
                   versionVars, clusterVars, runVars>>

\* return softmap
SMReturn ==
    /\ smStatus = "running" /\ mpIdx > Len(modulepaths)
    /\ smStatus' = "done"
    /\ UNCHANGED <<spiderT, mpmap, clusterData, modulepaths, mpIdx, softmap, determined,
                   clview, cvDefaults, cvStatus, versionVars, clusterVars, runVars>>

(***************************************************************************)
(* software_cluster_view (cache.py 301-334).                               *)
(***************************************************************************)
\* lines 320-321: for cluster in clusters: clview[cluster][name].append(version)
RECURSIVE AppendVersion(_, _, _)
AppendVersion(acc, version, clusters) ==
    IF clusters = <<>> \/ acc.err # "none" THEN acc
    ELSE LET cluster == Head(clusters)
         IN  IF cluster \notin DOMAIN acc.lists
             THEN [acc EXCEPT !.err = "KeyError"]
             ELSE AppendVersion([acc EXCEPT !.lists[cluster] = Append(@, version)],
                                version, Tail(clusters))

\* lines 319-321: for version, clusters in vdata.items()
RECURSIVE CollectVersions(_, _, _)
CollectVersions(order, soft, acc) ==
    IF order = <<>> \/ acc.err # "none" THEN acc
    ELSE CollectVersions(Tail(order), soft,
                         AppendVersion(acc, Head(order), soft.clusters[Head(order)]))

\* lines 326-332: versions.remove(default); versions.insert(0, default).
\* A default that is not in the list raises (the handler's message has fewer
\* placeholders than arguments, so what propagates is a formatting error).
Pinned(r, default) ==
    IF r.err # "none" THEN r
    ELSE IF default \notin Range(r.val) THEN Raise("ValueError")
    ELSE Ok(<<default>> \o Remove(r.val, default))

\* lines 324-332: sort, remove the default, insert it first
PinDefault(collected, default) == Pinned(sort_recent_versions(collected), default)

\* the outcome for one package, pinned the outcome per cluster
PinOutcome(pinned) ==
    IF \E c \in DOMAIN pinned : pinned[c].err # "none"
    THEN [err |-> "ValueError", lists |-> EmptyDict]
    ELSE [err |-> "none", lists |-> [c \in DOMAIN pinned |-> pinned[c].val]]

\* lines 323-332: for cluster, default in defaults.items()
PinAll(collected, defaults) ==
    IF collected.err # "none" THEN [err |-> collected.err, lists |-> EmptyDict]
    ELSE PinOutcome([c \in DOMAIN defaults |->
                        PinDefault(collected.lists[c], defaults[c])])

\* lines 311-332 for one package: [err, lists], lists: cluster -> versions
ViewOfName(soft) ==
    IF ~soft.hasDefaults THEN [err |-> "KeyError", lists |-> EmptyDict]
    ELSE PinAll(CollectVersions(soft.order, soft,
                    [err |-> "none", lists |-> [c \in DOMAIN soft.defaults |-> <<>>]]),
                soft.defaults)

\* vdata.pop(DEFAULTKEY)
PopDefaults(soft) == [soft EXCEPT !.hasDefaults = FALSE, !.defaults = EmptyDict]

\* clview[cluster][name] = versions, for the clusters of lists
MergeView(view, name, lists) ==
    [c \in DOMAIN view \cup DOMAIN lists |->
        IF c \in DOMAIN lists
        THEN DictSet(IF c \in DOMAIN view THEN view[c] ELSE EmptyDict, name, lists[c])
        ELSE view[c]]

\* acc after package name, soft its entry, r the outcome of ViewOfName
ViewAcc(acc, name, soft, r) ==
    [err |-> r.err,
     view |-> IF r.err = "none" THEN MergeView(acc.view, name, r.lists) ELSE acc.view,
     softmap |-> IF soft.hasDefaults THEN DictSet(acc.softmap, name, PopDefaults(soft))
                 ELSE acc.softmap,
     popped |-> IF soft.hasDefaults THEN DictSet(acc.popped, name, soft.defaults)
                ELSE acc.popped]

\* lines 310-332: for name, vdata in softmap.items(); acc holds err, view,
\* the softmap as mutated by the pops, and the popped defaults.
RECURSIVE ViewOfNames(_, _)
ViewOfNames(names, acc) ==
    IF names = <<>> \/ acc.err # "none" THEN acc
    ELSE ViewOfNames(Tail(names),
             ViewAcc(acc, Head(names), acc.softmap[Head(names)],
                     ViewOfName(acc.softmap[Head(names)])))

\* The call's effect, r the outcome of ViewOfNames.
CVEffect(r) ==
    /\ softmap' = r.softmap
    /\ cvDefaults' = r.popped
    /\ IF r.err # "none"
       THEN cvStatus' = "error" /\ UNCHANGED clview
       ELSE cvStatus' = "done" /\ clview' = r.view

\* software_cluster_view(softmap=softmap) on the SoftwareMap just returned
CVRun ==
    /\ smStatus = "done" /\ cvStatus = "idle"
    /\ CVEffect(ViewOfNames(ListOf(DOMAIN softmap),
                            [err |-> "none", view |-> EmptyDict,
                             softmap |-> softmap, popped |-> EmptyDict]))
    /\ UNCHANGED <<spiderT, mpmap, clusterData, modulepaths, mpIdx, determined, smStatus,
                   versionVars, clusterVars, runVars>>

(***************************************************************************)
(* SpecSoft: software_map on a SpiderTable of two module-paths, then       *)
(* software_cluster_view on its result.                                    *)
(***************************************************************************)
MaxFiles == 2       \* most version records a package has in one module-path

PkgP == <<"P">>
V9 == <<"9">>
V10 == <<"1", "0">>
V8 == <<"8">>
SoftVersions == {V8, V9, V10}

FileRecord(name, version) ==
    [fullname |-> name \o <<"/">> \o version, Version |-> version, canonical |-> version]

\* Records the sanity checks reject: another canonical form, another fullname.
BadCanonical == [fullname |-> PkgP \o <<"/">> \o V9, Version |-> V9, canonical |-> V10]
BadFullname == [fullname |-> <<"Q", "/", "9">>, Version |-> V9, canonical |-> V9]

FileRecords == {FileRecord(PkgP, v) : v \in SoftVersions}

\* fileT: up to MaxFiles records under different fullname keys
FileTs ==
    {f \in SeqsUpTo(FileRecords, MaxFiles) :
        \A i, j \in DOMAIN f : i # j => f[i].fullname # f[j].fullname}
    \cup {<<BadCanonical>>, <<FileRecord(PkgP, V10), BadFullname>>}

\* defaultT: absent, without value, "P/9", "10"
NoDefault == [set |-> FALSE, value |-> <<>>]
DefaultTs == {NoDefault, [set |-> TRUE, value |-> <<>>],
              [set |-> TRUE, value |-> PkgP \o <<"/">> \o V9],
              [set |-> TRUE, value |-> V10]}

\* spiderT[mpath]: no package, or package P
PathDatas ==
    {EmptyDict} \cup
    {[n \in {PkgP} |-> [fileT |-> f, defaultT |-> d]] : f \in FileTs, d \in DefaultTs}

SoftPaths == {PathA, PathB}
ClusterA == <<"a">>
ClusterB == <<"b">>

InitSoft ==
    /\ spiderT \in [SoftPaths -> PathDatas]
    /\ \E ca \in {<<ClusterA>>, <<ClusterA, ClusterB>>} :
       \E cb \in {<<>>, <<ClusterA>>, <<ClusterB>>} :
           mpmap = IF cb = <<>> THEN [k \in {PathA} |-> ca]
                   ELSE [k \in SoftPaths |-> IF k = PathA THEN ca ELSE cb]
    /\ clusterData \in {<<>>, << <<PathA>> >>}
    /\ modulepaths = <<>> /\ mpIdx = 0 /\ softmap = EmptyDict /\ determined = EmptyDict
    /\ smStatus = "idle" /\ clview = EmptyDict /\ cvDefaults = EmptyDict
    /\ cvStatus = "idle"
    /\ IdleVersions /\ IdleCluster /\ IdleRun

NextSoft == SMStart \/ SMStep \/ SMReturn \/ CVRun

SpecSoft == InitSoft /\ [][NextSoft]_vars

NextSeq == SMStart

SpecSeq == InitSeq /\ [][NextSeq]_vars

(***************************************************************************)
(* convert_lmod_cache_to_json (cache.py 337-345) and write_json (275-287). *)
(*                                                                         *)
(* mpathMapT and spiderT hold the tables of the Lmod cache file from the   *)
(* start; get_lmod_cache hands them to cluster_map and software_map.       *)
(***************************************************************************)
\* json.dump({MAIN_CLUSTERS_KEY: clustermap, MAIN_SOFTWARE_KEY: softmap})
ArtifactOf(cm, sm) == [clusters |-> cm, software |-> sm]

\* lines 339-341: get_lmod_conf and get_lmod_cache read the configuration and
\* the cache file, or raise; then cluster_map(mpathMapT) is entered.
ConvertStart ==
    /\ scPc = "convert" /\ convStatus = "idle"
    /\ IF runOpts.cache_readable
       THEN /\ convStatus' = "running"
            /\ cmStatus' = "running"
            /\ cmTodo' = DOMAIN mpathMapT
       ELSE /\ convStatus' = "raised"
            /\ UNCHANGED <<cmStatus, cmTodo>>
    /\ UNCHANGED <<mpathMapT, cmCur, cmNames, clustermap, modulepathmap,
                   runOpts, scPc, artifact, reports, versionVars, softVars>>

\* Variant in which an error of cluster_map does not end the conversion.
ClusterMapLeft == cmStatus \in {"done", "error"}

\* line 343 has returned: clustermap, mpmap = cluster_map(mpathMapT)
ClusterMapReturned == cmStatus = "done"

\* lines 343-344: mpmap is bound and software_map(spiderT, mpmap) is entered
ConvertSoftware ==
    /\ convStatus = "running" /\ smStatus = "pending"
    /\ ClusterMapReturned
    /\ mpmap' = modulepathmap
    /\ smStatus' = "idle"
    /\ UNCHANGED <<spiderT, clusterData, modulepaths, mpIdx, softmap, determined,
                   clview, cvDefaults, cvStatus, versionVars, clusterVars, runVars>>

\* line 345: write_json(clustermap, softmap); atomic_write replaces the file
\* when json.dump is through.
WriteJson ==
    /\ convStatus = "running" /\ smStatus = "done"
    /\ artifact' = Append(artifact, ArtifactOf(clustermap, softmap))
    /\ convStatus' = "returned"
    /\ UNCHANGED <<runOpts, scPc, reports, versionVars, clusterVars, softVars>>

\* the exception of cluster_map or software_map leaves the function
ConvertRaise ==
    /\ convStatus = "running"
    /\ cmStatus = "error" \/ smStatus = "error"
    /\ convStatus' = "raised"
    /\ UNCHANGED <<runOpts, scPc, artifact, reports, versionVars, clusterVars, softVars>>

(***************************************************************************)
(* main of bin/run_lmod_cache.py (lines 42-90).                            *)
(*                                                                         *)
(* opts.critical and opts.warning (vsc.utils.script_tools) record the      *)
(* report; whether they then end the process or return to the caller is    *)
(* left open, both are modelled.                                           *)
(***************************************************************************)
JsonFailed == "Lmod to JSON failed."
CacheUpdateFailed == "Lmod cache update failed"
FailedToUpdate == "Failed to update Lmod cache. See logs."
UncaughtException == "Script failed because of uncaught exception. See logs."
NotFresh == "Lmod cache is not fresh"
CacheUpdated == "Lmod cache updated."
StillFresh == "Lmod cache is still fresh."

\* opts.critical(msg) / opts.warning(msg) at a statement followed by resume
Report(level, msg, resume) ==
    /\ reports' = Append(reports, [level |-> level, msg |-> msg])
    /\ \E exits \in BOOLEAN : scPc' = IF exits THEN "exited" ELSE resume

\* lines 55-56: if opts.options.create_cache
Main ==
    /\ scPc = "main"
    /\ scPc' = IF runOpts.create_cache THEN "create" ELSE "freshness"
    /\ UNCHANGED <<runOpts, convStatus, artifact, reports,
                   versionVars, clusterVars, softVars>>

\* lines 57-61 (cache.py 84-90): run_cache_create raises RuntimeError without
\* $LMOD_DIR, which the handler of lines 80-82 reports; a non-zero exit code
\* is reported at line 61.
RunCacheCreate ==
    /\ scPc = "create"
    /\ IF ~runOpts.lmod_dir THEN Report("critical", FailedToUpdate, "epilogue")
       ELSE IF runOpts.exitcode # 0 THEN Report("critical", CacheUpdateFailed, "convert")
       ELSE scPc' = "convert" /\ UNCHANGED reports
    /\ UNCHANGED <<runOpts, convStatus, artifact, versionVars, clusterVars, softVars>>

\* What convert_lmod_cache_to_json returns: it has no return statement.
ConvertReturnValue == "None"

\* stats['clusters'], stats['total_modules'] can be evaluated
Subscriptable(stats) == stats # "None"

\* lines 64-69: the conversion has returned or raised; line 65 subscripts
\* its return value; any exception is reported at line 69.
Stats ==
    /\ scPc = "convert" /\ convStatus \in {"returned", "raised"}
    /\ IF convStatus = "raised" \/ ~Subscriptable(ConvertReturnValue)
       THEN Report("critical", JsonFailed, "freshness")
       ELSE scPc' = "freshness" /\ UNCHANGED reports
    /\ UNCHANGED <<runOpts, convStatus, artifact, versionVars, clusterVars, softVars>>

\* line 75: (time.time() - timestamp.st_mtime) > freshness_threshold * 60
Stale == runOpts.age > runOpts.freshness_threshold * 60

\* lines 71-78: os.stat of the timestamp file raises when it is missing,
\* which the handler of lines 83-85 reports; a stale cache is a warning.
Freshness ==
    /\ scPc = "freshness"
    /\ IF ~runOpts.timestamp THEN Report("critical", UncaughtException, "epilogue")
       ELSE IF Stale THEN Report("warning", NotFresh, "epilogue")
       ELSE scPc' = "epilogue" /\ UNCHANGED reports
    /\ UNCHANGED <<runOpts, convStatus, artifact, versionVars, clusterVars, softVars>>

\* lines 87-90: opts.epilogue(...)
Epilogue ==
    /\ scPc = "epilogue"
    /\ reports' = Append(reports, [level |-> "ok",
                                   msg |-> IF runOpts.create_cache THEN CacheUpdated
                                           ELSE StillFresh])
    /\ scPc' = "exited"
    /\ UNCHANGED <<runOpts, convStatus, artifact, versionVars, clusterVars, softVars>>

(***************************************************************************)
(* SpecRun: one run of the script on a cache file of two module-paths.     *)
(***************************************************************************)
\* The cluster modules a module-path of the cache file has: none, cluster/a,
\* its partition cluster/a/p (in conflict with cluster/a), cluster/a and
\* cluster/b.
RunModules ==
    {{}, {ModName(<<"a">>)}, {ModName(<<"a", "/", "p">>)},
     {ModName(<<"a">>), ModName(<<"b">>)}}

\* spiderT[mpath] of the cache file: no package, P/9, P/10 with default P/9,
\* a record the sanity checks reject.
RunPathDatas ==
    {EmptyDict,
     [n \in {PkgP} |-> [fileT |-> <<FileRecord(PkgP, V9)>>, defaultT |-> NoDefault]],
     [n \in {PkgP} |-> [fileT |-> <<FileRecord(PkgP, V10)>>,
                        defaultT |-> [set |-> TRUE, value |-> PkgP \o <<"/">> \o V9]]],
     [n \in {PkgP} |-> [fileT |-> <<BadCanonical>>, defaultT |-> NoDefault]]}

\* Seconds since the timestamp file was modified, around the threshold.
Ages == {60, 61}
\* --freshness-threshold, in minutes
FreshnessThresholds == {1}

\* The options and environment of a run; without --create-cache nothing of
\* the cache creation and conversion is looked at.
RunOptions ==
    {o \in [create_cache : BOOLEAN, lmod_dir : BOOLEAN, exitcode : {0, 1},
            cache_readable : BOOLEAN, timestamp : BOOLEAN, age : Ages,
            freshness_threshold : FreshnessThresholds] :
        ~o.create_cache => o.lmod_dir /\ o.exitcode = 0 /\ o.cache_readable}

InitRun ==
    /\ runOpts \in RunOptions
    /\ mpathMapT \in [MPaths -> RunModules]
    /\ spiderT \in [MPaths -> RunPathDatas]
    /\ ~runOpts.create_cache =>
           /\ mpathMapT = [k \in MPaths |-> {}]
           /\ spiderT = [k \in MPaths |-> EmptyDict]
    /\ scPc = "main" /\ convStatus = "idle" /\ artifact = <<>> /\ reports = <<>>
    /\ cmTodo = {} /\ cmCur = <<>> /\ cmNames = {}
    /\ clustermap = EmptyDict /\ modulepathmap = EmptyDict /\ cmStatus = "idle"
    /\ mpmap = EmptyDict /\ clusterData = <<>> /\ modulepaths = <<>> /\ mpIdx = 0
    /\ softmap = EmptyDict /\ determined = EmptyDict /\ smStatus = "pending"
    /\ clview = EmptyDict /\ cvDefaults = EmptyDict /\ cvStatus = "unused"
    /\ IdleVersions

NextRun ==
    \/ Main \/ RunCacheCreate
    \/ ConvertStart \/ CMNextPath \/ CMStep \/ CMReturn
    \/ ConvertSoftware \/ SMStart \/ SMStep \/ SMReturn
    \/ WriteJson \/ ConvertRaise
    \/ Stats \/ Freshness \/ Epilogue

SpecRun == InitRun /\ [][NextRun]_vars

(***************************************************************************)
(* The comparator's claims (SpecCompare).                                  *)
(***************************************************************************)
\* A component is numeric when int() accepts it after lstrip('v').
IsNumeric(c) == IsIntLiteral(LStrip(c, "v"))

\* A component by kind and value: Numeric(value) or Text(value).
Tagged(c) == IF IsNumeric(c) THEN [num |-> TRUE, n |-> ToInt(LStrip(c, "v")), s |-> <<>>]
             ELSE [num |-> FALSE, n |-> 0, s |-> c]
TaggedSeq(v) == LET c == SplitComponents(v) IN [i \in 1..Len(c) |-> Tagged(c[i])]

\* The components of a and b agree in kind at every index both have.
Aligned(a, b) ==
    LET ta == TaggedSeq(a)
        tb == TaggedSeq(b)
    IN  \A i \in 1..Min2(Len(ta), Len(tb)) : ta[i].num = tb[i].num

\* Numeric-then-lexical order decided at the first differing component:
\* integers by value, text by code point, an extension above its prefix.
RefCmp(a, b) ==
    LET ta == TaggedSeq(a)
        tb == TaggedSeq(b)
        i == FirstDiff(ta, tb)
    IN  IF i = 0
        THEN (IF Len(ta) = Len(tb) THEN "equal"
              ELSE IF Len(ta) < Len(tb) THEN "less" ELSE "greater")
        ELSE IF ta[i].num
        THEN (IF ta[i].n < tb[i].n THEN "less" ELSE "greater")
        ELSE (IF StrLess(ta[i].s, tb[i].s) THEN "less" ELSE "greater")

Flip(c) == CASE c = "less" -> "greater" [] c = "greater" -> "less" [] OTHER -> c

\* The first differing components of a and b are of different kinds.
MixedAtFirstDiff(a, b) ==
    LET ta == TaggedSeq(a)
        tb == TaggedSeq(b)
        i == FirstDiff(ta, tb)
    IN  i # 0 /\ ta[i].num # tb[i].num

\* Order of a number against a text component under str comparison: the
\* zero-filled number starts with "0", the text with its first character.
MixedCmp(a, b) ==
    LET ta == TaggedSeq(a)
        tb == TaggedSeq(b)
        i == FirstDiff(ta, tb)
        txt == IF ta[i].num THEN tb[i].s ELSE ta[i].s
        numBelow == Ord("0") < Ord(txt[1])
    IN  IF ta[i].num = numBelow THEN "less" ELSE "greater"

\* C8 as stated: a pair of version strings with a numeric component aligned
\* with a textual one raises a comparison error, and sort_recent_versions on
\* a list holding the pair propagates it.
C8_MisalignedRaises ==
    (Len(versions) = 2 /\ ~Aligned(versions[1], versions[2])) =>
        /\ cmpOut # "none" => cmpOut = "TypeError"
        /\ sortOut # Unset => sortOut.err = "TypeError"

\* C8 amended: comparing such a pair raises nothing; where the first
\* differing components are a number and a text, plain string comparison of
\* the zero-filled number with the text decides (a lowercase word is the
\* more recent), and sort_recent_versions returns the pair in that order.
C8_MisalignedCompares ==
    (Len(versions) = 2 /\ ~Aligned(versions[1], versions[2])) =>
        /\ cmpOut \in {"none", "less", "equal", "greater"}
        /\ (cmpOut # "none" /\ MixedAtFirstDiff(versions[1], versions[2])) =>
               cmpOut = MixedCmp(versions[1], versions[2])
        /\ sortOut # Unset =>
               /\ sortOut.err = "none"
               /\ sortOut.val = IF cmpOut = "less" THEN <<versions[2], versions[1]>>
                                ELSE versions

\* C8 witness: the pair of test_versions has been compared and sorted, the
\* binutils variant first.
C8_Witness ==
    /\ versions = <<V_2_25, V_binutils>>
    /\ ~Aligned(versions[1], versions[2])
    /\ cmpOut = "less"
    /\ sortOut = Ok(<<V_binutils, V_2_25>>)

\* C9: on pairs whose components align in kind, the comparator is the
\* numeric-then-lexical order decided at the first differing component
\* (integers by value, text lexically, an extension the more recent); it is
\* antisymmetric and reports equality only for equal component values.
C9_AlignedTotalOrder ==
    (Len(versions) = 2 /\ cmpOut # "none" /\ Aligned(versions[1], versions[2])) =>
        /\ cmpOut = RefCmp(versions[1], versions[2])
        /\ SoftwareVersionCmp(versions[2], versions[1]) = Flip(cmpOut)
        /\ cmpOut = "equal" <=> TaggedSeq(versions[1]) = TaggedSeq(versions[2])

\* C9 witness: "10" against "9" (more digits, larger value) and the
\* GCCcore 8.3.0 / 8.2.0 pair have been compared.
C9_Witness ==
    /\ cmpOut = "greater"
    /\ Aligned(versions[1], versions[2])
    /\ versions \in {<< <<"1", "0">>, <<"9">> >>, <<V_8_3_0, V_8_2_0>>}

(***************************************************************************)
(* The sort's claims (SpecSort).                                           *)
(***************************************************************************)
Count(l, x) == Cardinality({i \in DOMAIN l : l[i] = x})

\* The elements of l that compare equal to x, in the order of l.
EqualTo(l, x) == LET Same(y) == SoftwareVersionCmp(y, x) = "equal" IN SelectSeq(l, Same)

C10_Sorted ==
    /\ sortOut # Unset =>
        /\ sortOut.err = "none"
        /\ Len(sortOut.val) = Len(versions)
        /\ \A x \in Range(versions) : Count(sortOut.val, x) = Count(versions, x)
        /\ \A i, j \in DOMAIN sortOut.val :
               i < j => SoftwareVersionCmp(sortOut.val[i], sortOut.val[j]) # "less"
        /\ \A x \in Range(versions) : EqualTo(sortOut.val, x) = EqualTo(versions, x)
    /\ resortOut # Unset => resortOut = sortOut

\* C10: sort_recent_versions returns a permutation of its input in descending
\* comparator order with equal elements in input order, leaves its input
\* list as it was, and sorting its result again returns that result.
C10_SortContract == [](C10_Sorted) /\ [][versions' = versions]_vars

\* C10 witness: an unsorted list holding two different strings that compare
\* equal has been sorted and its result sorted again.
C10_Witness ==
    /\ resortOut # Unset
    /\ sortOut.val # versions
    /\ \E i, j \in DOMAIN versions :
           /\ i < j /\ versions[i] # versions[j]
           /\ SoftwareVersionCmp(versions[i], versions[j]) = "equal"

(***************************************************************************)
(* cluster_map's claims (SpecCluster).                                     *)
(***************************************************************************)
Markers(mpath) == ClusterModules(mpathMapT[mpath])
AllMarkers == UNION {Markers(mpath) : mpath \in DOMAIN mpathMapT}

\* Number of segments after the "cluster/" prefix.
SegCount(clmod) == Len(Split(clmod, "/")) - 1

\* The segments with their leading dots stripped, joined by "/".
Identity(clmod) ==
    LET segs == Tail(Split(clmod, "/"))
    IN  Join([i \in 1..Len(segs) |-> LStrip(segs[i], ".")], "/")

StrictlyAscending(l) == \A i, j \in DOMAIN l : i < j => StrLess(l[i], l[j])

\* C6: whatever the iteration order, a completed cluster_map maps the
\* identity of every one- or two-segment cluster marker to its module name,
\* and lists for each module-path exactly the identities of its own markers,
\* sorted and without duplicates; a module-path without markers has no entry.
C6_ClusterMapResult ==
    cmStatus = "done" =>
        /\ \A n \in AllMarkers :
               SegCount(n) \in {1, 2} =>
                   /\ Identity(n) \in DOMAIN clustermap
                   /\ clustermap[Identity(n)] = n
        /\ DOMAIN clustermap = {ClusterOf(n) : n \in AllMarkers}
        /\ DOMAIN modulepathmap = {mpath \in DOMAIN mpathMapT : Markers(mpath) # {}}
        /\ \A mpath \in DOMAIN modulepathmap :
               /\ Range(modulepathmap[mpath]) = {ClusterOf(n) : n \in Markers(mpath)}
               /\ StrictlyAscending(modulepathmap[mpath])

\* C6 witness: a completed run over a table with a hidden partition, a
\* module-path with two markers and a module-path with none.
C6_Witness ==
    /\ cmStatus = "done"
    /\ <<"a", "/", "p">> \in DOMAIN clustermap
    /\ clustermap[<<"a", "/", "p">>] = ModName(<<"a", "/", ".", "p">>)
    /\ \E mpath \in DOMAIN modulepathmap : Len(modulepathmap[mpath]) = 2
    /\ DOMAIN modulepathmap # DOMAIN mpathMapT

\* Two different module names for one identity, or a plain marker and a
\* partitioned marker with the same base name, somewhere in the table.
Conflict ==
    \/ \E n1, n2 \in AllMarkers : n1 # n2 /\ ClusterOf(n1) = ClusterOf(n2)
    \/ \E n1, n2 \in AllMarkers :
           /\ ~IsPartitioned(n1) /\ IsPartitioned(n2)
           /\ ClusterName(n1) = ClusterName(n2)

\* C7: on a table with such a conflict cluster_map has raised by the time
\* every module name is iterated, in every iteration order; so a returned
\* ClusterMap never holds both a key X and a key X/p.
C7_ConflictAborts ==
    /\ (cmStatus # "idle" /\ cmTodo = {} /\ cmNames = {} /\ Conflict) => cmStatus = "error"
    /\ cmStatus = "done" =>
           \A k1, k2 \in DOMAIN clustermap : ~StartsWith(k2, k1 \o <<"/">>)

\* C7 witness: the partitioned identity a/p was registered first and the
\* plain marker cluster/a, iterated later, made the run raise.
C7_Witness ==
    /\ cmStatus = "error"
    /\ DOMAIN clustermap = {<<"a", "/", "p">>}
    /\ ModName(<<"a">>) \in AllMarkers

(***************************************************************************)
(* sort_modulepaths' claims (SpecSeq).                                     *)
(***************************************************************************)
Suffix(l, n) == SubSeq(l, Len(l) - n + 1, Len(l))

Distinct(l) == \A i, j \in DOMAIN l : i # j => l[i] # l[j]

\* l without the repetitions of an element after its first occurrence.
RECURSIVE DedupFirst(_)
DedupFirst(l) ==
    IF l = <<>> THEN <<>>
    ELSE LET front == DedupFirst(SubSeq(l, 1, Len(l) - 1))
         IN  IF l[Len(l)] \in Range(front) THEN front ELSE Append(front, l[Len(l)])

\* One configuration entry, its declared extras all among the retained paths.
SingleEntryRetained ==
    /\ smStatus # "idle"
    /\ Len(clusterData) = 1
    /\ Range(clusterData[1]) \subseteq Range(PreSorted(spiderT, mpmap))

\* C3 as stated: the (distinct) extras of the single entry end the result in
\* their declared order.
C3_DeclaredOrder ==
    (SingleEntryRetained /\ Distinct(clusterData[1])) =>
        Suffix(modulepaths, Len(clusterData[1])) = clusterData[1]

\* C3 amended: the extras of the single entry end the result in the reverse
\* of their declared order (a repeated extra counted where it is first
\* declared), after the other retained paths in sorted order.
C3_ReverseDeclaredOrder ==
    SingleEntryRetained =>
        LET extras == clusterData[1]
            Other(x) == x \notin Range(extras)
        IN  modulepaths = SelectSeq(PreSorted(spiderT, mpmap), Other)
                              \o Reversed(DedupFirst(extras))

\* C3 witness: baseline [A, B, C] with declared extras [B, A] has been
\* sequenced to [C, A, B].
C3_Witness ==
    /\ SingleEntryRetained
    /\ PreSorted(spiderT, mpmap) = <<PathA, PathB, PathC>>
    /\ clusterData = << <<PathB, PathA>> >>
    /\ modulepaths = <<PathC, PathA, PathB>>

(***************************************************************************)
(* The claims on software_map and software_cluster_view (SpecSoft).        *)
(***************************************************************************)
\* The versions package n has in module-path mpath.
VersionsIn(mpath, n) ==
    {spiderT[mpath][n].fileT[i].Version : i \in DOMAIN spiderT[mpath][n].fileT}

\* The module-path at position i of the sequenced order serves cluster c
\* and carries package n.
ServesAndCarries(i, n, c) ==
    /\ c \in Range(mpmap[modulepaths[i]])
    /\ n \in DOMAIN spiderT[modulepaths[i]]

\* The position of the earliest such module-path.
Earliest(n, c) ==
    CHOOSE j \in 1..Len(modulepaths) :
        /\ ServesAndCarries(j, n, c)
        /\ \A k \in 1..(j - 1) : ~ServesAndCarries(k, n, c)

\* The defaults recorded for package n: the DEFAULTKEY entry of the
\* SoftwareMap, or what software_cluster_view popped from it.
RecordedDefaults(n) ==
    IF cvStatus # "idle"
    THEN IF n \in DOMAIN cvDefaults THEN cvDefaults[n] ELSE EmptyDict
    ELSE IF n \in DOMAIN softmap /\ softmap[n].hasDefaults
         THEN softmap[n].defaults ELSE EmptyDict

\* The positions of the module-paths whose loop body has completed.
ProcessedPaths == {i \in 1..Len(modulepaths) : i < mpIdx}

\* A record the sanity checks of lines 224-227 reject.
BadRecord(n, e) == e.Version # e.canonical \/ e.fullname # n \o <<"/">> \o e.Version

\* What in the input of the module-path at position i makes its loop body
\* raise: a rejected record, an explicit default that names no version seen
\* up to this module-path, or no version to fall back on.
AbortCause(i) ==
    \E n \in DOMAIN spiderT[modulepaths[i]] :
        LET nd == spiderT[modulepaths[i]][n]
        IN  \/ \E k \in DOMAIN nd.fileT : BadRecord(n, nd.fileT[k])
            \/ /\ HasValue(nd.defaultT)
               /\ StripName(n, nd.defaultT.value) \notin
                     UNION {VersionsIn(modulepaths[j], n) :
                               j \in {j \in 1..i : n \in DOMAIN spiderT[modulepaths[j]]}}
            \/ ~HasValue(nd.defaultT) /\ nd.fileT = <<>>

\* x > y > ... strictly, by the version comparator
StrictlyDescending(l) ==
    \A i \in 1..(Len(l) - 1) : SoftwareVersionCmp(l[i], l[i + 1]) = "greater"

\* C1 (as claimed): in the view software_cluster_view returns for a
\* SoftwareMap of software_map, every (cluster, package) list starts with the
\* default recorded for that cluster and package, and the elements after it
\* are strictly descending, so that no version occurs twice in the list.
C1_DefaultFirstStrict ==
    cvStatus = "done" =>
        \A c \in DOMAIN clview : \A n \in DOMAIN clview[c] :
            /\ clview[c][n] # <<>>
            /\ c \in DOMAIN RecordedDefaults(n)
            /\ clview[c][n][1] = RecordedDefaults(n)[c]
            /\ StrictlyDescending(Tail(clview[c][n]))
            /\ Distinct(clview[c][n])

\* C2: for every package and cluster, the recorded default is the one
\* determined for the earliest module-path of the sequenced order that serves
\* the cluster and carries the package, at every point of the run from the
\* moment a module-path serving the cluster has been processed; and the run
\* aborts only for a cause in the failing module-path's own records or
\* declaration, never because a later module-path determined another default.
C2_FirstWriterWins ==
    /\ \A i \in ProcessedPaths :
         \A n \in DOMAIN spiderT[modulepaths[i]] :
           \A c \in Range(mpmap[modulepaths[i]]) :
             /\ c \in DOMAIN RecordedDefaults(n)
             /\ RecordedDefaults(n)[c] = determined[modulepaths[Earliest(n, c)]][n]
    /\ smStatus = "error" => AbortCause(mpIdx)

\* A completed run in which two module-paths serve one cluster and determined
\* different defaults for the package, the first one's being recorded.
C2_Witness ==
    /\ smStatus = "done" /\ Len(modulepaths) = 2
    /\ \A i \in 1..2 : PkgP \in DOMAIN spiderT[modulepaths[i]]
    /\ determined[modulepaths[1]][PkgP] # determined[modulepaths[2]][PkgP]
    /\ \E c \in Range(mpmap[modulepaths[1]]) \cap Range(mpmap[modulepaths[2]]) :
           RecordedDefaults(PkgP)[c] = determined[modulepaths[1]][PkgP]

\* C4 (as claimed): a module-path whose package carries an explicit non-empty
\* default that, stripped of a leading "package/", is not among the versions
\* of that package in that same module-path, is never processed to the end:
\* the run aborts there and returns no SoftwareMap.
C4_ForeignDefaultAborts ==
    \A i \in ProcessedPaths :
        \A n \in DOMAIN spiderT[modulepaths[i]] :
            HasValue(spiderT[modulepaths[i]][n].defaultT) =>
                StripName(n, spiderT[modulepaths[i]][n].defaultT.value)
                    \in VersionsIn(modulepaths[i], n)

\* C5: for a package of a processed module-path without default declaration,
\* or with a declaration without value, the default determined is one of the
\* versions the package has in that module-path and none of these is more
\* recent; when no other module-path carries the package, it is the recorded
\* default of every cluster the module-path serves.
C5_FallbackMostRecent ==
    \A i \in ProcessedPaths :
        \A n \in DOMAIN spiderT[modulepaths[i]] :
            ~HasValue(spiderT[modulepaths[i]][n].defaultT) =>
                /\ determined[modulepaths[i]][n] \in VersionsIn(modulepaths[i], n)
                /\ \A v \in VersionsIn(modulepaths[i], n) :
                       SoftwareVersionCmp(v, determined[modulepaths[i]][n]) # "greater"
                /\ (\A q \in DOMAIN spiderT : n \in DOMAIN spiderT[q] => q = modulepaths[i])
                       => \A c \in Range(mpmap[modulepaths[i]]) :
                              /\ c \in DOMAIN RecordedDefaults(n)
                              /\ RecordedDefaults(n)[c] = determined[modulepaths[i]][n]

\* A completed run in which the only module-path carrying the package serves
\* two clusters and lists an older version before the most recent one, with
\* a default declaration that has no value.
C5_Witness ==
    /\ smStatus = "done"
    /\ \E i \in ProcessedPaths :
         /\ PkgP \in DOMAIN spiderT[modulepaths[i]]
         /\ \A q \in DOMAIN spiderT : PkgP \in DOMAIN spiderT[q] => q = modulepaths[i]
         /\ spiderT[modulepaths[i]][PkgP].defaultT = [set |-> TRUE, value |-> <<>>]
         /\ Len(spiderT[modulepaths[i]][PkgP].fileT) = 2
         /\ spiderT[modulepaths[i]][PkgP].fileT[1].Version = V9
         /\ determined[modulepaths[i]][PkgP] = V10
         /\ mpmap[modulepaths[i]] = <<ClusterA, ClusterB>>
         /\ RecordedDefaults(PkgP) = [c \in {ClusterA, ClusterB} |-> V10]

\* The positions of the sequenced module-paths that carry version v of
\* package n.
CarriersOf(n, v) ==
    {i \in 1..Len(modulepaths) :
        /\ n \in DOMAIN spiderT[modulepaths[i]]
        /\ v \in VersionsIn(modulepaths[i], n)}

\* C11 (as claimed): in the SoftwareMap software_map returns, the cluster
\* list of every (package, version) is sorted, holds no cluster twice, and
\* holds exactly the clusters of the membership lists of the sequenced
\* module-paths that carry the version.
C11_SortedUnion ==
    smStatus = "done" =>
        \A n \in DOMAIN softmap : \A v \in DOMAIN softmap[n].clusters :
            /\ StrictlyAscending(softmap[n].clusters[v])
            /\ Range(softmap[n].clusters[v]) =
                   UNION {Range(mpmap[modulepaths[i]]) : i \in CarriersOf(n, v)}

\* C12 (as claimed): in the SoftwareMap software_map returns, every recorded
\* default of a package for a cluster is a version key of the package whose
\* cluster list holds the cluster, and software_cluster_view on that map
\* does not fail.
C12_DefaultIsServedVersion ==
    smStatus = "done" =>
        /\ \A n \in DOMAIN softmap : \A c \in DOMAIN RecordedDefaults(n) :
               /\ RecordedDefaults(n)[c] \in DOMAIN softmap[n].clusters
               /\ c \in Range(softmap[n].clusters[RecordedDefaults(n)[c]])
        /\ cvStatus # "error"

(***************************************************************************)
(* The claims on the conversion run and the script (SpecRun).              *)
(***************************************************************************)
\* The cluster modules of the whole ModulePathTable.
AllClusterModules == UNION {ClusterModules(mpathMapT[mpath]) : mpath \in DOMAIN mpathMapT}

\* The ClusterMap is complete: every cluster module of the table is in it.
CompleteClusterMap ==
    /\ cmStatus = "done" /\ cmTodo = {} /\ cmNames = {}
    /\ DOMAIN clustermap = {ClusterOf(clmod) : clmod \in AllClusterModules}

\* The SoftwareMap is complete: every sequenced module-path is processed and
\* every version of every package they carry is a key of the package's entry.
CompleteSoftwareMap ==
    /\ smStatus = "done" /\ mpIdx = Len(modulepaths) + 1
    /\ Range(modulepaths) = {mpath \in DOMAIN spiderT : mpath \in DOMAIN modulepathmap}
    /\ \A k \in 1..Len(modulepaths) : \A n \in DOMAIN spiderT[modulepaths[k]] :
           /\ n \in DOMAIN softmap
           /\ VersionsIn(modulepaths[k], n) \subseteq DOMAIN softmap[n].clusters

\* C13: in a conversion run the JSON file is written only when cluster_map
\* and software_map have both completed, at most once, and with the complete
\* ClusterMap and SoftwareMap of the run; a run in which either of them, or
\* the reading of the cache, raised has written nothing.
C13_WrittenAfterBoth ==
    /\ artifact # <<>> =>
           /\ CompleteClusterMap /\ CompleteSoftwareMap
           /\ artifact = <<ArtifactOf(clustermap, softmap)>>
    /\ (cmStatus = "error" \/ smStatus = "error" \/ convStatus = "raised") =>
           artifact = <<>>

\* A run that wrote the file, with clusters and a package in it.
C13_Witness ==
    /\ convStatus = "returned" /\ Len(artifact) = 1
    /\ DOMAIN artifact[1].clusters # {}
    /\ PkgP \in DOMAIN artifact[1].software
    /\ Len(modulepaths) = 2

\* C14 (as claimed): the script reports "Lmod to JSON failed." only when the
\* conversion raised; a run with --create-cache whose cache creation exits
\* with 0 and whose conversion returns after writing the file, on a fresh
\* cache with its timestamp file, ends with the "Lmod cache updated."
\* epilogue and without critical report.
C14_JsonFailedOnlyOnError ==
    /\ (\E i \in DOMAIN reports : reports[i].msg = JsonFailed) => convStatus = "raised"
    /\ ( /\ scPc = "exited" /\ runOpts.create_cache
         /\ runOpts.lmod_dir /\ runOpts.exitcode = 0
         /\ convStatus = "returned" /\ artifact # <<>>
         /\ runOpts.timestamp /\ ~Stale )
       => /\ \A i \in DOMAIN reports : reports[i].level # "critical"
          /\ reports # <<>> /\ reports[Len(reports)].msg = CacheUpdated

====
